---- MODULE Spec2Model ----
(***************************************************************************)
(* Model of DiscoveryService (src/sql/schema.sql, the JavaScript part):   *)
(* Jaccard similarity, peer scoring, candidate aggregation, enrichment    *)
(* and ranking, the two fallbacks, the category classifier and the        *)
(* reading-history breakdown, over a store of books and loans, for one    *)
(* request and for two requests on the one service instance.              *)
(*                                                                         *)
(* Numbers: a JavaScript score is a quotient of two small integers or a    *)
(* sum of such quotients; it is modelled as an exact fraction in lowest    *)
(* terms, [n |-> numerator, d |-> denominator].  toFixed(4) is modelled    *)
(* as rounding to a multiple of 1/10^4 (half rounds up).                   *)
(* Titles are modelled as small integers; the order of the integers is    *)
(* the collation order localeCompare uses.  Category codes are small      *)
(* integers where only their equality is read, and sequences of           *)
(* characters where the classifier reads them.                            *)
(***************************************************************************)
EXTENDS Integers, Sequences, FiniteSets, TLC

\* ------------------------------------------------------------------ bounds
NumBooks  == 5      \* book ids of the store
NumUsers  == 3      \* reader ids of the store
MaxRead   == 3      \* largest read-set of reader 1
MaxPeerLoans == 4   \* loan rows of the other readers in the catalogue store
NumTitles == 2      \* distinct titles in the drawn catalogues
NumCodes  == 2      \* distinct category codes in the drawn catalogues
MaxCopies == 3      \* loan rows of one reader for one book (category store)
UnitBooks == 3      \* book ids of the function-level inputs
UnitPeers == 2      \* peer ids of the function-level inputs
RankBooks == 3      \* candidate books of the ranking inputs
MaxCodeLen == 5     \* characters of a drawn category code string
DnaBooks  == 3      \* book ids of the reading-history store

\* ------------------------------------------------------- program constants
MIN_SIMILARITY_NUM == 1     \* MIN_SIMILARITY = 0.1 = 1/10
MIN_SIMILARITY_DEN == 10
MAX_PEERS    == 50
MAX_RESULTS  == 10
FIXED_DIGITS == 4           \* weightedScore.toFixed(4)
ROUTE_LIMIT  == 5           \* the limit the route passes (server.js)
PCT_DIGITS   == 2           \* (...).toFixed(2) of a percentage

Books == 1..NumBooks
Users == 1..NumUsers

\* ---------------------------------------------------------------- numbers
RECURSIVE GCD(_, _)
GCD(a, b) == IF b = 0 THEN a ELSE GCD(b, a % b)

Frac(n, d) == LET g == GCD(n, d) IN [n |-> n \div g, d |-> d \div g]
Zero == [n |-> 0, d |-> 1]
FracAdd(x, y) == Frac(x.n * y.d + y.n * x.d, x.d * y.d)
FracLT(x, y)  == x.n * y.d < y.n * x.d
FracLE(x, y)  == x.n * y.d <= y.n * x.d

RECURSIVE Pow10(_)
Pow10(k) == IF k = 0 THEN 1 ELSE 10 * Pow10(k - 1)

\* parseFloat(x.toFixed(4)): the nearest multiple of 10^-4, the larger of two
ToFixed(x) ==
  LET scale == Pow10(FIXED_DIGITS)
      units == (2 * x.n * scale + x.d) \div (2 * x.d)
  IN  Frac(units, scale)

MIN_SIMILARITY == Frac(MIN_SIMILARITY_NUM, MIN_SIMILARITY_DEN)

Min(a, b) == IF a <= b THEN a ELSE b

\* arr.slice(0, k) for k >= 0
Slice(s, k) == SubSeq(s, 1, Min(k, Len(s)))

\* ------------------------------------------------------------------ state
VARIABLES
  books,        \* books table: book_id -> [title, dewey_decimal]
  loans,        \* loans table: user_id -> book_id -> number of loan rows
  pc,           \* position of the request / of the function-level harness
  userId, limit, minScore,      \* arguments of getRecommendations
  targetBooks,  \* Set returned by _getBorrowedBooks
  allUserBooks, \* map returned by _getAllUserBooks
  jac,          \* function-level harness: results of _jaccard
  peers,        \* list returned by _scorePeers
  candidates,   \* Map returned by _aggregateCandidates
  result,       \* list returned by getRecommendations
  queries,      \* data-access calls issued by the request, in order
  dna,          \* object returned by getReadingDNA
  error,        \* the rejection the request ended with: the call that failed
  dewey,        \* function-level harness: argument of _deweyCategory
  category,     \* function-level harness: label returned by _deweyCategory
  other         \* locals of a second request suspended at an await

vars == <<books, loans, pc, userId, limit, minScore, targetBooks,
          allUserBooks, jac, peers, candidates, result, queries,
          dna, error, dewey, category, other>>

NoMap == [x \in {} |-> 0]      \* the empty object {} / empty Map

\* before getReadingDNA has returned / before any call has been rejected
NoDNA == [userId |-> 0, name |-> "", totalBooks |-> 0, breakdown |-> <<>>,
          summary |-> <<>>]
NoError == "none"

\* the locals of a request that has not been called yet
IdleFrame ==
  [pc |-> "idle", userId |-> 0, limit |-> 0, minScore |-> Zero,
   targetBooks |-> {}, allUserBooks |-> NoMap, peers |-> <<>>,
   candidates |-> NoMap, result |-> <<>>, queries |-> <<>>,
   dna |-> NoDNA, error |-> NoError]

\* no getReadingDNA result, no rejection, no classifier call, no second request
InitRest ==
  /\ dna = NoDNA /\ error = NoError
  /\ dewey = <<>> /\ category = ""
  /\ other = IdleFrame

\* ------------------------------------------------------------ _jaccard
JaccardMut(setA, setB) ==
  IF Cardinality(setA) = 0 /\ Cardinality(setB) = 0 THEN Zero
  ELSE LET smaller == IF Cardinality(setA) <= Cardinality(setB) THEN setA ELSE setB
           larger  == IF Cardinality(setA) <= Cardinality(setB) THEN setB ELSE setA
           intersectionCount == Cardinality({item \in smaller : item \in larger})
           unionCount == Cardinality(larger)
       IN  Frac(intersectionCount, unionCount)

Jaccard(setA, setB) ==
  IF Cardinality(setA) = 0 /\ Cardinality(setB) = 0 THEN Zero
  ELSE LET smaller == IF Cardinality(setA) <= Cardinality(setB) THEN setA ELSE setB
           larger  == IF Cardinality(setA) <= Cardinality(setB) THEN setB ELSE setA
           intersectionCount == Cardinality({item \in smaller : item \in larger})
           unionCount == Cardinality(setA) + Cardinality(setB) - intersectionCount
       IN  Frac(intersectionCount, unionCount)

\* ---------------------------------------------------------- _scorePeers
\* Object.entries(allUserBooks): keys in insertion order, which is the
\* ORDER BY user_id order of _getAllUserBooks
RECURSIVE Entries(_, _)
Entries(map, keys) ==
  IF keys = {} THEN <<>>
  ELSE LET k == CHOOSE x \in keys : \A y \in keys : x <= y
       IN  <<k>> \o Entries(map, keys \ {k})

\* Array.prototype.sort is stable: x goes before the first element the
\* comparator (a, b) => b.score - a.score puts strictly after it
RECURSIVE InsertByScore(_, _)
InsertByScore(sorted, x) ==
  IF sorted = <<>> THEN <<x>>
  ELSE IF FracLT(Head(sorted).score, x.score) THEN <<x>> \o sorted
  ELSE <<Head(sorted)>> \o InsertByScore(Tail(sorted), x)

RECURSIVE SortByScore(_, _)
SortByScore(sorted, rest) ==
  IF rest = <<>> THEN sorted
  ELSE SortByScore(InsertByScore(sorted, Head(rest)), Tail(rest))

\* if (score >= minScore)
QualifiesMut(score, ms) == FracLT(ms, score)
Qualifies(score, ms) == FracLE(ms, score)

RECURSIVE Scored(_, _, _, _)
Scored(target, map, keys, ms) ==
  IF keys = <<>> THEN <<>>
  ELSE LET peerId == Head(keys)
           score  == Jaccard(target, map[peerId])
       IN  (IF Qualifies(score, ms)
              THEN <<[peerId |-> peerId, score |-> score, books |-> map[peerId]]>>
              ELSE <<>>)
           \o Scored(target, map, Tail(keys), ms)

ScorePeersMut(target, map, ms) ==
  Scored(target, map, Entries(map, DOMAIN map), ms)

ScorePeers(target, map, ms) ==
  SortByScore(<<>>, Scored(target, map, Entries(map, DOMAIN map), ms))

\* ------------------------------------------------- _aggregateCandidates
AddPeerMut(cands, peer, target) ==
  LET fresh == peer.books \ target
  IN  [bookId \in (DOMAIN cands) \cup fresh |->
        IF bookId \in DOMAIN cands THEN cands[bookId]
        ELSE [weightedScore |-> peer.score, recommendedBy |-> <<peer.peerId>>]]

AddPeer(cands, peer, target) ==
  LET fresh == peer.books \ target
  IN  [bookId \in (DOMAIN cands) \cup fresh |->
        LET entry == IF bookId \in DOMAIN cands THEN cands[bookId]
                     ELSE [weightedScore |-> Zero, recommendedBy |-> <<>>]
        IN  IF bookId \in fresh
              THEN [weightedScore |-> FracAdd(entry.weightedScore, peer.score),
                    recommendedBy |-> Append(entry.recommendedBy, peer.peerId)]
              ELSE entry]

RECURSIVE AggregateFrom(_, _, _)
AggregateFrom(cands, ps, target) ==
  IF ps = <<>> THEN cands
  ELSE LET next == AddPeer(cands, Head(ps), target)
       IN  IF next = cands THEN AggregateFrom(cands, Tail(ps), target)
           ELSE AggregateFrom(next, Tail(ps), target)

AggregateCandidates(ps, target) == AggregateFrom(NoMap, ps, target)

\* ------------------------------------------ function-level specification
UnitBookSet == 1..UnitBooks
UnitPeerSet == 1..UnitPeers
MinScores   == {Zero, MIN_SIMILARITY, Frac(1, 2)}

InitUnit ==
  /\ books = [b \in Books |-> [title |-> 1, dewey |-> 1]]
  /\ loans = [u \in Users |-> [b \in Books |-> 0]]
  /\ pc = "unit"
  /\ userId = 0 /\ limit = 0
  /\ minScore \in MinScores
  /\ targetBooks \in SUBSET UnitBookSet
  /\ \E ids \in SUBSET UnitPeerSet : allUserBooks \in [ids -> SUBSET UnitBookSet]
  /\ jac = NoMap /\ peers = <<>> /\ candidates = NoMap
  /\ result = <<>> /\ queries = <<>>
  /\ InitRest

\* _jaccard(target, peer) and _jaccard(peer, target) for every entry
UnitJaccard ==
  /\ pc = "unit"
  /\ jac' = [p \in DOMAIN allUserBooks |->
               [ab |-> Jaccard(targetBooks, allUserBooks[p]),
                ba |-> Jaccard(allUserBooks[p], targetBooks)]]
  /\ pc' = "unit_jaccard"
  /\ UNCHANGED <<dna, error, dewey, category, other>>
  /\ UNCHANGED <<books, loans, userId, limit, minScore, targetBooks,
                 allUserBooks, peers, candidates, result, queries>>

UnitScorePeers ==
  /\ pc = "unit_jaccard"
  /\ peers' = ScorePeers(targetBooks, allUserBooks, minScore)
  /\ pc' = "unit_scored"
  /\ UNCHANGED <<dna, error, dewey, category, other>>
  /\ UNCHANGED <<books, loans, userId, limit, minScore, targetBooks,
                 allUserBooks, jac, candidates, result, queries>>

\* _aggregateCandidates(peers, exclude) for any exclusion set; the argument
\* is kept in targetBooks
UnitAggregate ==
  /\ pc = "unit_scored"
  /\ \E exclude \in SUBSET UnitBookSet :
       /\ targetBooks' = exclude
       /\ candidates' = AggregateCandidates(peers, exclude)
  /\ pc' = "unit_aggregated"
  /\ UNCHANGED <<dna, error, dewey, category, other>>
  /\ UNCHANGED <<books, loans, userId, limit, minScore,
                 allUserBooks, jac, peers, result, queries>>

NextUnit == UnitJaccard \/ UnitScorePeers \/ UnitAggregate

SpecUnit == InitUnit /\ [][NextUnit]_vars

\* ------------------------------------------------------------- the store
RECURSIVE SumLoans(_, _)
SumLoans(us, bookId) ==
  IF us = {} THEN 0
  ELSE LET u == CHOOSE x \in us : TRUE
       IN  loans[u][bookId] + SumLoans(us \ {u}, bookId)

\* COUNT(l.loan_id) of one book over the whole loans table
BorrowCount(bookId) == SumLoans(DOMAIN loans, bookId)

\* SELECT book_id FROM loans WHERE user_id = ?  ->  new Set(rows)
GetBorrowedBooks(u) == {b \in DOMAIN books : loans[u][b] > 0}

\* SELECT user_id, book_id FROM loans WHERE user_id <> ? ORDER BY user_id,
\* grouped into { userId -> Set<bookId> }
GetAllUserBooks(excludeUserId) ==
  [u \in {x \in (DOMAIN loans) \ {excludeUserId} : GetBorrowedBooks(x) # {}} |->
     GetBorrowedBooks(u)]

\* rows of the cold-start query before ORDER BY / LIMIT: books JOIN loans,
\* GROUP BY book_id
ColdStartRows ==
  {[book_id |-> b, borrow_count |-> BorrowCount(b)] :
     b \in {x \in DOMAIN books : BorrowCount(x) > 0}}

\* rows of the category query before ORDER BY / LIMIT: one joined row per
\* (b1 in the read-set, b2 outside it with b1's code, loan of b2),
\* GROUP BY b2.book_id, COUNT(l.loan_id)
DeweyJoinCount(target, b2) ==
  Cardinality({b1 \in target : books[b1].dewey = books[b2].dewey})
    * BorrowCount(b2)

DeweyRowsMut(target) ==
  {[book_id |-> b2, borrow_count |-> DeweyJoinCount(target, b2)] :
     b2 \in {x \in DOMAIN books : DeweyJoinCount(target, x) > 0}}

DeweyRows(target) ==
  {[book_id |-> b2, borrow_count |-> DeweyJoinCount(target, b2)] :
     b2 \in {x \in (DOMAIN books) \ target : DeweyJoinCount(target, x) > 0}}

\* ORDER BY borrow_count DESC: every order of the rows in which no row
\* follows a row with a smaller count (rows with equal counts in any order)
RECURSIVE CountOrders(_)
CountOrders(rows) ==
  IF rows = {} THEN {<<>>}
  ELSE UNION {{<<r>> \o rest : rest \in CountOrders(rows \ {r})} :
                r \in {x \in rows :
                         \A y \in rows : y.borrow_count <= x.borrow_count}}

\* rows.map(r => ({ ..., fallback: 'cold_start_popularity' }))
ColdStartEntryMut(r) ==
  [book_id |-> r.book_id, title |-> books[r.book_id].title,
   dewey_decimal |-> books[r.book_id].dewey,
   match_score |-> Frac(r.borrow_count, 1), recommended_by |-> <<>>,
   fallback |-> "cold_start_popularity"]
ColdStartEntry(r) ==
  [book_id |-> r.book_id, title |-> books[r.book_id].title,
   dewey_decimal |-> books[r.book_id].dewey,
   match_score |-> Zero, recommended_by |-> <<>>,
   fallback |-> "cold_start_popularity"]

\* rows.map(r => ({ ..., fallback: 'dewey_category_popularity' }))
DeweyEntryMut(r) ==
  [book_id |-> r.book_id, title |-> books[r.book_id].title,
   dewey_decimal |-> books[r.book_id].dewey,
   match_score |-> Zero, recommended_by |-> <<>>,
   fallback |-> "cold_start_popularity"]
DeweyEntry(r) ==
  [book_id |-> r.book_id, title |-> books[r.book_id].title,
   dewey_decimal |-> books[r.book_id].dewey,
   match_score |-> Zero, recommended_by |-> <<>>,
   fallback |-> "dewey_category_popularity"]

\* --------------------------------------------------------- _enrichAndRank
MatchScoreMut(weightedScore) ==
  Frac((weightedScore.n * Pow10(FIXED_DIGITS)) \div weightedScore.d,
       Pow10(FIXED_DIGITS))
MatchScore(weightedScore) == ToFixed(weightedScore)

Enriched(cands) ==
  {[book_id |-> b, title |-> books[b].title, dewey_decimal |-> books[b].dewey,
    match_score |-> MatchScore(cands[b].weightedScore),
    recommended_by |-> cands[b].recommendedBy, fallback |-> "none"] :
     b \in DOMAIN cands}

\* (a, b) => b.match_score - a.match_score || a.title.localeCompare(b.title)
\* is negative: a sorts before b
RankBeforeMut(a, b) == FracLT(b.match_score, a.match_score)
RankBefore(a, b) ==
  \/ FracLT(b.match_score, a.match_score)
  \/ a.match_score = b.match_score /\ a.title < b.title

\* results.sort(...) over the rows in whatever order the store returned them:
\* the sort is stable, so rows the comparator treats as equal may come out in
\* any order
RECURSIVE RankOrders(_)
RankOrders(rows) ==
  IF rows = {} THEN {<<>>}
  ELSE UNION {{<<r>> \o rest : rest \in RankOrders(rows \ {r})} :
                r \in {x \in rows : \A y \in rows : ~RankBefore(y, x)}}

\* ------------------------------------------------------ getRecommendations
\* opts.limit: none, 2, and a limit above MAX_RESULTS where the store has
\* more books than MAX_RESULTS (over a smaller store it returns what the
\* default returns)
NoOpt == <<>>
OptLimits ==
  {NoOpt, <<2>>} \cup (IF Cardinality(DOMAIN books) > MAX_RESULTS
                         THEN {<<MAX_RESULTS + 1>>} ELSE {})
OptMinScores == {NoOpt, <<Frac(1, 2)>>}
ReqUsers     == {1, 2}

\* opts.x ?? dflt
OrDefault(opt, dflt) == IF opt = NoOpt THEN dflt ELSE opt[1]

Awaiting == {"getBorrowedBooks", "getAllUserBooks", "coldStartFallback",
             "deweyFallback", "enrichAndRank", "getReadingDNA"}

\* getRecommendations(userId, opts) up to its first await
Call ==
  /\ pc = "idle"
  /\ \E u \in ReqUsers, optLimit \in OptLimits, optMinScore \in OptMinScores :
       /\ userId' = u
       /\ limit' = OrDefault(optLimit, MAX_RESULTS)
       /\ minScore' = OrDefault(optMinScore, MIN_SIMILARITY)
  /\ pc' = "getBorrowedBooks"
  /\ queries' = <<"getBorrowedBooks">>
  /\ UNCHANGED <<dna, error, dewey, category, other>>
  /\ UNCHANGED <<books, loans, targetBooks, allUserBooks, jac, peers,
                 candidates, result>>

\* _getBorrowedBooks resolves; cold start or the second query is issued
GetBorrowedBooksReturn ==
  /\ pc = "getBorrowedBooks"
  /\ targetBooks' = GetBorrowedBooks(userId)
  /\ IF Cardinality(targetBooks') = 0
       THEN /\ pc' = "coldStartFallback"
            /\ queries' = Append(queries, "coldStartFallback")
       ELSE /\ pc' = "getAllUserBooks"
            /\ queries' = Append(queries, "getAllUserBooks")
  /\ UNCHANGED <<dna, error, dewey, category, other>>
  /\ UNCHANGED <<books, loans, userId, limit, minScore, allUserBooks, jac,
                 peers, candidates, result>>

\* peers.slice(0, MAX_PEERS)
\* (TopPeersMut: the last MAX_PEERS entries of the list are kept)
TopPeersMut(ps) == SubSeq(ps, Len(ps) - Min(MAX_PEERS, Len(ps)) + 1, Len(ps))
TopPeers(ps) == Slice(ps, MAX_PEERS)

\* _getAllUserBooks resolves; peers are scored, candidates aggregated and
\* the next query (category fallback or metadata) is issued
GetAllUserBooksReturn ==
  /\ pc = "getAllUserBooks"
  /\ allUserBooks' = GetAllUserBooks(userId)
  /\ IF DOMAIN allUserBooks' = {}
       THEN /\ result' = <<>>
            /\ pc' = "done"
            /\ UNCHANGED <<peers, candidates, queries>>
       ELSE /\ peers' = ScorePeers(targetBooks, allUserBooks', minScore)
            /\ IF Len(peers') = 0
                 THEN /\ pc' = "deweyFallback"
                      /\ queries' = Append(queries, "deweyFallback")
                      /\ UNCHANGED <<candidates, result>>
                 ELSE /\ candidates' =
                           AggregateCandidates(TopPeers(peers'), targetBooks)
                      /\ IF DOMAIN candidates' = {}
                           THEN /\ result' = <<>>
                                /\ pc' = "done"
                                /\ UNCHANGED queries
                           ELSE /\ pc' = "enrichAndRank"
                                /\ queries' = Append(queries, "enrichAndRank")
                                /\ UNCHANGED result
  /\ UNCHANGED <<dna, error, dewey, category, other>>
  /\ UNCHANGED <<books, loans, userId, limit, minScore, targetBooks, jac>>

\* the metadata query of _enrichAndRank resolves
EnrichAndRankReturn ==
  /\ pc = "enrichAndRank"
  /\ \E sorted \in RankOrders(Enriched(candidates)) :
       result' = Slice(sorted, limit)
  /\ pc' = "done"
  /\ UNCHANGED <<dna, error, dewey, category, other>>
  /\ UNCHANGED <<books, loans, userId, limit, minScore, targetBooks,
                 allUserBooks, jac, peers, candidates, queries>>

\* the query of _coldStartFallback resolves (ORDER BY ... LIMIT ?)
ColdStartFallbackReturn ==
  /\ pc = "coldStartFallback"
  /\ \E rows \in CountOrders(ColdStartRows) :
       result' = [i \in 1..Min(limit, Len(rows)) |-> ColdStartEntry(rows[i])]
  /\ pc' = "done"
  /\ UNCHANGED <<dna, error, dewey, category, other>>
  /\ UNCHANGED <<books, loans, userId, limit, minScore, targetBooks,
                 allUserBooks, jac, peers, candidates, queries>>

\* the query of _deweyFallback resolves (ORDER BY ... LIMIT ?)
DeweyFallbackReturn ==
  /\ pc = "deweyFallback"
  /\ \E rows \in CountOrders(DeweyRows(targetBooks)) :
       result' = [i \in 1..Min(limit, Len(rows)) |-> DeweyEntry(rows[i])]
  /\ pc' = "done"
  /\ UNCHANGED <<dna, error, dewey, category, other>>
  /\ UNCHANGED <<books, loans, userId, limit, minScore, targetBooks,
                 allUserBooks, jac, peers, candidates, queries>>

\* pool.execute rejects: the await throws, no catch intervenes and the
\* promise of the request is rejected with the error of the failed call
\* (QueryFailMut: the rejected call is re-issued instead)
QueryFailMut ==
  /\ pc \in Awaiting
  /\ queries' = Append(queries, pc)
  /\ UNCHANGED <<books, loans, pc, userId, limit, minScore, targetBooks,
                 allUserBooks, jac, peers, candidates, result, dna, error,
                 dewey, category, other>>
QueryFail ==
  /\ pc \in Awaiting
  /\ pc' = "failed"
  /\ error' = pc
  /\ UNCHANGED <<dna, dewey, category, other>>
  /\ UNCHANGED <<books, loans, userId, limit, minScore, targetBooks,
                 allUserBooks, jac, peers, candidates, result, queries>>

Next ==
  \/ Call
  \/ GetBorrowedBooksReturn
  \/ GetAllUserBooksReturn
  \/ EnrichAndRankReturn
  \/ ColdStartFallbackReturn
  \/ DeweyFallbackReturn
  \/ QueryFail

\* ---------------------------------------------- stores and specifications
Idle ==
  /\ pc = "idle"
  /\ userId = 0 /\ limit = 0 /\ minScore = Zero
  /\ targetBooks = {} /\ allUserBooks = NoMap /\ jac = NoMap
  /\ peers = <<>> /\ candidates = NoMap /\ result = <<>> /\ queries = <<>>
  /\ InitRest

\* a fixed catalogue: titles and category codes repeat along the book ids
Catalog ==
  [b \in Books |-> [title |-> ((b - 1) % NumTitles) + 1,
                    dewey |-> (((b - 1) \div 2) % NumCodes) + 1]]

\* Catalogue store: reader 1 has read the first k books, the other readers
\* hold at most MaxPeerLoans loan rows between them, one per reader and book
Init ==
  /\ books = Catalog
  /\ \E k \in 0..MaxRead, others \in SUBSET ((Users \ {1}) \X Books) :
       /\ Cardinality(others) <= MaxPeerLoans
       /\ loans = [u \in Users |-> [b \in Books |->
                     IF u = 1 THEN (IF b <= k THEN 1 ELSE 0)
                     ELSE IF <<u, b>> \in others THEN 1 ELSE 0]]
  /\ Idle

Spec == Init /\ [][Next]_vars

\* Category inputs: _deweyFallback(userId, targetBooks, limit) for reader 1,
\* who has read the first k books; reader 2 holds up to MaxCopies loan rows
\* for each of at most two unread books; the books carry any category codes
\* (up to renaming of the codes: each code first occurs after all smaller ones)
CodeMaps ==
  {codes \in [Books -> 1..NumCodes] :
     \A b \in Books : \A c \in 1..(codes[b] - 1) :
       \E a \in 1..(b - 1) : codes[a] = c}

InitDewey ==
  /\ \E codes \in CodeMaps :
       books = [b \in Books |-> [title |-> 1, dewey |-> codes[b]]]
  /\ \E k \in 1..MaxRead :
       /\ \E b2 \in (k + 1)..NumBooks, b3 \in (k + 1)..NumBooks,
            n2 \in 0..MaxCopies, n3 \in 0..MaxCopies :
            /\ b2 < b3
            /\ loans = [u \in Users |-> [b \in Books |->
                          IF u = 1 THEN (IF b <= k THEN 1 ELSE 0)
                          ELSE IF u = 2 /\ b = b2 THEN n2
                          ELSE IF u = 2 /\ b = b3 THEN n3
                          ELSE 0]]
       /\ targetBooks = 1..k
  /\ pc = "unit_dewey"
  /\ userId = 1
  /\ limit \in {1, 2, MAX_RESULTS}
  /\ minScore = MIN_SIMILARITY
  /\ allUserBooks = NoMap /\ jac = NoMap /\ peers = <<>>
  /\ candidates = NoMap /\ result = <<>> /\ queries = <<>>
  /\ InitRest

\* _deweyFallback(userId, targetBooks, limit) up to its await
UnitDeweyFallback ==
  /\ pc = "unit_dewey"
  /\ pc' = "deweyFallback"
  /\ queries' = Append(queries, "deweyFallback")
  /\ UNCHANGED <<dna, error, dewey, category, other>>
  /\ UNCHANGED <<books, loans, userId, limit, minScore, targetBooks,
                 allUserBooks, jac, peers, candidates, result>>

NextDewey == UnitDeweyFallback \/ DeweyFallbackReturn \/ QueryFail

SpecDewey == InitDewey /\ [][NextDewey]_vars

\* Large store: enough books for a list longer than MAX_RESULTS on each
\* path.  Every book has its own title and the one category code; reader 1
\* has read the first k books, reader 2 holds b loan rows of each book b of
\* one interval of book ids (so that borrow counts differ from book to book)
CapBooks == 1..(MAX_RESULTS + 3)

InitCap ==
  /\ books = [b \in CapBooks |-> [title |-> b, dewey |-> 1]]
  /\ \E k \in 0..MaxRead, lo \in CapBooks, hi \in CapBooks \cup {0} :
       loans = [u \in Users |-> [b \in CapBooks |->
                  IF u = 1 THEN (IF b <= k THEN 1 ELSE 0)
                  ELSE IF u = 2 /\ lo <= b /\ b <= hi THEN b
                  ELSE 0]]
  /\ Idle

SpecCap == InitCap /\ [][Next]_vars

\* Crowded store: MAX_PEERS + 1 readers besides reader 1, four books of one
\* category.  Reader 1 has read book 1 or nothing; of the readers 2..m the
\* first ones (up to reader i) have read all four books and the later ones
\* books 1 and 2, so that the later readers score higher (1/2 against 1/4;
\* every sum of such scores is a multiple of 1/4)
CrowdUsers == 1..(MAX_PEERS + 2)
CrowdBooks == 1..4

InitCrowd ==
  /\ books = [b \in CrowdBooks |-> [title |-> b, dewey |-> 1]]
  /\ \E k \in 0..1, i \in CrowdUsers, m \in (MAX_PEERS)..(MAX_PEERS + 2) :
       loans = [u \in CrowdUsers |-> [b \in CrowdBooks |->
                  IF u = 1 THEN (IF b <= k THEN 1 ELSE 0)
                  ELSE IF u > m THEN 0
                  ELSE IF u <= i THEN 1
                  ELSE (IF b <= 2 THEN 1 ELSE 0)]]
  /\ Idle

SpecCrowd == InitCrowd /\ [][Next]_vars

\* Ranking inputs: _enrichAndRank(candidates, limit) on any candidate map
\* over the first RankBooks books, with weighted scores that include two
\* (1/200 and 1/201: one shared book in a union of 200 resp. 201) which
\* toFixed(4) maps to the same number
ScoreSamples == {Frac(1, 2), Frac(1, 3), Frac(1, 200), Frac(1, 201)}
RankBookSet  == 1..RankBooks

InitRank ==
  /\ \E titles \in [RankBookSet -> 1..NumTitles] :
       books = [b \in Books |->
                  [title |-> IF b \in RankBookSet THEN titles[b] ELSE 1,
                   dewey |-> 1]]
  /\ loans = [u \in Users |-> [b \in Books |-> 0]]
  /\ pc = "unit_rank"
  /\ userId = 0
  /\ limit \in {1, 2, MAX_RESULTS}
  /\ minScore = Zero
  /\ targetBooks = {} /\ allUserBooks = NoMap /\ jac = NoMap /\ peers = <<>>
  /\ \E keys \in SUBSET RankBookSet :
       candidates \in [keys -> [weightedScore : ScoreSamples,
                                recommendedBy : {<<2>>}]]
  /\ result = <<>> /\ queries = <<>>
  /\ InitRest

\* _enrichAndRank(candidates, limit) up to its await
UnitEnrichAndRank ==
  /\ pc = "unit_rank"
  /\ IF DOMAIN candidates = {}
       THEN /\ result' = <<>>
            /\ pc' = "done"
            /\ UNCHANGED queries
       ELSE /\ pc' = "enrichAndRank"
            /\ queries' = Append(queries, "enrichAndRank")
            /\ UNCHANGED result
  /\ UNCHANGED <<dna, error, dewey, category, other>>
  /\ UNCHANGED <<books, loans, userId, limit, minScore, targetBooks,
                 allUserBooks, jac, peers, candidates>>

NextRank == UnitEnrichAndRank \/ EnrichAndRankReturn \/ QueryFail

SpecRank == InitRank /\ [][NextRank]_vars

\* ---------------------------------------------------------- _deweyCategory
\* A code string is a sequence of one-character strings.
DigitChars == <<"0", "1", "2", "3", "4", "5", "6", "7", "8", "9">>
IsDigit(c) == \E i \in 1..Len(DigitChars) : DigitChars[i] = c
DigitValue(c) == (CHOOSE i \in 1..Len(DigitChars) : DigitChars[i] = c) - 1

RECURSIVE LeadingDigits(_)
LeadingDigits(s) ==
  IF s = <<>> THEN <<>>
  ELSE IF ~IsDigit(Head(s)) THEN <<>>
  ELSE <<Head(s)>> \o LeadingDigits(Tail(s))

RECURSIVE DigitsValue(_)
DigitsValue(ds) ==
  IF ds = <<>> THEN 0
  ELSE 10 * DigitsValue(SubSeq(ds, 1, Len(ds) - 1)) + DigitValue(ds[Len(ds)])

\* a JavaScript number as far as the classifier reads it: NaN, or a sign, the
\* integer part of the magnitude and whether a fractional part is present
NaN == [nan |-> TRUE, neg |-> FALSE, int |-> 0, frac |-> FALSE]

\* parseFloat(s) on a string without white space, exponent or "Infinity":
\* the longest prefix  [+-] digits [. digits]  or  [+-] . digits, NaN if none
ParseFloat(s) ==
  LET signed     == IF s = <<>> THEN FALSE ELSE Head(s) \in {"-", "+"}
      body       == IF signed THEN Tail(s) ELSE s
      intDigits  == LeadingDigits(body)
      rest       == SubSeq(body, Len(intDigits) + 1, Len(body))
      fracDigits == IF rest = <<>> THEN <<>>
                    ELSE IF Head(rest) = "." THEN LeadingDigits(Tail(rest))
                    ELSE <<>>
  IN  IF intDigits = <<>> /\ fracDigits = <<>> THEN NaN
      ELSE [nan |-> FALSE, neg |-> signed /\ Head(s) = "-",
            int |-> DigitsValue(intDigits), frac |-> DigitsValue(fracDigits) > 0]

\* Math.floor(num): NaN stays NaN, -0 is 0
Floor(num) ==
  [nan |-> num.nan,
   v   |-> IF num.nan THEN 0
           ELSE IF ~num.neg THEN num.int
           ELSE IF num.frac THEN -(num.int + 1)
           ELSE -num.int]

RECURSIVE Decimal(_)
Decimal(n) ==
  IF n < 10 THEN <<DigitChars[n + 1]>>
  ELSE Decimal(n \div 10) \o <<DigitChars[(n % 10) + 1]>>

\* String(x) of an integer-valued number (below 10^21) or NaN
NumberToString(f) ==
  IF f.nan THEN <<"N", "a", "N">>
  ELSE IF f.v < 0 THEN <<"-">> \o Decimal(-f.v)
  ELSE Decimal(f.v)

\* s.padStart(len, c)
PadStart(s, len, c) ==
  IF Len(s) >= len THEN s ELSE [i \in 1..(len - Len(s)) |-> c] \o s

\* num < k for an integer k: false on NaN
LessThan(num, k) == ~num.nan /\ Floor(num).v < k

\* the table `specific`
Specific ==
  (<<"0", "0", "5">> :> "Technology & Computer Science") @@
  (<<"1", "5", "3">> :> "Cognitive Psychology") @@
  (<<"1", "5", "5">> :> "Developmental Psychology") @@
  (<<"1", "5", "8">> :> "Applied Psychology & Self-Help") @@
  (<<"3", "0", "2">> :> "Social Influences & Behaviour") @@
  (<<"3", "3", "2">> :> "Finance & Economics") @@
  (<<"6", "5", "8">> :> "Business & Management") @@
  (<<"7", "4", "5">> :> "Design & Decorative Arts") @@
  (<<"9", "0", "9">> :> "World History") @@
  (<<"9", "2", "1">> :> "Biography & Memoir")

\* the chain of `if (num < ...) return ...`
BroadClass(num) ==
  IF LessThan(num, 100) THEN "General & Computer Science"
  ELSE IF LessThan(num, 200) THEN "Philosophy & Psychology"
  ELSE IF LessThan(num, 300) THEN "Religion & Theology"
  ELSE IF LessThan(num, 400) THEN "Social Sciences"
  ELSE IF LessThan(num, 500) THEN "Language & Linguistics"
  ELSE IF LessThan(num, 600) THEN "Pure Science"
  ELSE IF LessThan(num, 700) THEN "Applied Science & Technology"
  ELSE IF LessThan(num, 800) THEN "Arts & Recreation"
  ELSE IF LessThan(num, 900) THEN "Literature"
  ELSE "History, Geography & Biography"

\* static _deweyCategory(dewey)
\* (DeweyCategoryMut: the prefix is cut from the code string itself)
DeweyCategoryMut(code) ==
  LET num    == ParseFloat(code)
      prefix == Slice(PadStart(code, 3, "0"), 3)
  IN  IF prefix \in DOMAIN Specific THEN Specific[prefix] ELSE BroadClass(num)
DeweyCategory(code) ==
  LET num    == ParseFloat(code)
      prefix == Slice(PadStart(NumberToString(Floor(num)), 3, "0"), 3)
  IN  IF prefix \in DOMAIN Specific THEN Specific[prefix] ELSE BroadClass(num)

\* Classifier inputs: every string of at most MaxCodeLen characters over a
\* few digits, the point, the sign and "x" (any character that is no part of
\* a number), and every three-digit class alone, with a decimal and with a
\* fourth digit
CodeChars == {"0", "1", "5", "9", ".", "-", "x"}
AllDigits == {DigitChars[i] : i \in 1..Len(DigitChars)}
ClassCodes ==
  {<<a, b, c>> \o t : a \in AllDigits, b \in AllDigits, c \in AllDigits,
                      t \in {<<>>, <<".", "5">>, <<"0">>}}

InitClassify ==
  /\ books = [b \in Books |-> [title |-> 1, dewey |-> 1]]
  /\ loans = [u \in Users |-> [b \in Books |-> 0]]
  /\ pc = "unit_category"
  /\ userId = 0 /\ limit = 0 /\ minScore = Zero
  /\ targetBooks = {} /\ allUserBooks = NoMap /\ jac = NoMap
  /\ peers = <<>> /\ candidates = NoMap /\ result = <<>> /\ queries = <<>>
  /\ dna = NoDNA /\ error = NoError /\ other = IdleFrame
  /\ dewey \in (UNION {[1..n -> CodeChars] : n \in 0..MaxCodeLen}) \cup ClassCodes
  /\ category = ""

\* DiscoveryService._deweyCategory(dewey)
UnitDeweyCategory ==
  /\ pc = "unit_category"
  /\ category' = DeweyCategory(dewey)
  /\ pc' = "unit_classified"
  /\ UNCHANGED <<books, loans, userId, limit, minScore, targetBooks,
                 allUserBooks, jac, peers, candidates, result, queries,
                 dna, error, dewey, other>>

NextClassify == UnitDeweyCategory

SpecClassify == InitClassify /\ [][NextClassify]_vars

\* ------------------------------------------------------------ getReadingDNA
\* u.name of reader u
UserName(u) == ToString(u)

\* the codes whose books reader u has a loan row for
BorrowedCodes(u) == {books[b].dewey : b \in {x \in DOMAIN books : loans[u][x] > 0}}

RECURSIVE SumCodeLoans(_, _, _)
SumCodeLoans(u, code, bs) ==
  IF bs = {} THEN 0
  ELSE LET b == CHOOSE x \in bs : TRUE
       IN  (IF books[b].dewey = code THEN loans[u][b] ELSE 0)
             + SumCodeLoans(u, code, bs \ {b})

\* rows of the query before ORDER BY: users JOIN loans JOIN books for one
\* reader, GROUP BY b.dewey_decimal, COUNT(*)
DnaRows(u) ==
  {[name |-> UserName(u), dewey_decimal |-> code,
    book_count |-> SumCodeLoans(u, code, DOMAIN books)] :
     code \in BorrowedCodes(u)}

\* ORDER BY book_count DESC: rows with equal counts in any order
RECURSIVE BookCountOrders(_)
BookCountOrders(rows) ==
  IF rows = {} THEN {<<>>}
  ELSE UNION {{<<r>> \o rest : rest \in BookCountOrders(rows \ {r})} :
                r \in {x \in rows :
                         \A y \in rows : y.book_count <= x.book_count}}

\* rows.reduce((sum, r) => sum + Number(r.book_count), 0)
RECURSIVE TotalBooks(_)
TotalBooks(rows) ==
  IF rows = <<>> THEN 0 ELSE Head(rows).book_count + TotalBooks(Tail(rows))

\* x.toFixed(2) of x = units / 10^2 as text: integer part, point, two digits
FixedText(units) ==
  LET scale == Pow10(PCT_DIGITS)
      digits == Decimal(units % scale)
  IN  Decimal(units \div scale) \o <<".">> \o PadStart(digits, PCT_DIGITS, "0")

\* ((count / totalBooks) * 100).toFixed(2) + '%': the nearest multiple of
\* 0.01, the larger of two
\* (PercentageMut: the percentage is cut off after two decimals)
PercentageMut(count, totalBooks) ==
  FixedText((count * 100 * Pow10(PCT_DIGITS)) \div totalBooks) \o <<"%">>
Percentage(count, totalBooks) ==
  FixedText((2 * count * 100 * Pow10(PCT_DIGITS) + totalBooks)
              \div (2 * totalBooks)) \o <<"%">>

\* rows.map(r => ({ category, dewey, count, percentage }))
Breakdown(rows) ==
  [i \in 1..Len(rows) |->
     [category   |-> DeweyCategory(rows[i].dewey_decimal),
      dewey      |-> rows[i].dewey_decimal,
      count      |-> rows[i].book_count,
      percentage |-> Percentage(rows[i].book_count, TotalBooks(rows))]]

\* breakdown.map(b => `${b.percentage} ${b.category}`).join(', '), as the
\* sequence of its pieces: the characters of a percentage, " ", a label, ", "
RECURSIVE Summary(_)
Summary(breakdown) ==
  IF breakdown = <<>> THEN <<>>
  ELSE Head(breakdown).percentage \o <<" ", Head(breakdown).category>>
       \o (IF Tail(breakdown) = <<>> THEN <<>>
           ELSE <<", ">> \o Summary(Tail(breakdown)))

\* what getReadingDNA returns for the rows of its query
ReadingDNA(u, rows) ==
  IF Len(rows) = 0
    THEN [userId |-> u, name |-> "Unknown", totalBooks |-> 0,
          breakdown |-> <<>>, summary |-> <<"No reading history found.">>]
    ELSE [userId |-> u, name |-> rows[1].name, totalBooks |-> TotalBooks(rows),
          breakdown |-> Breakdown(rows), summary |-> Summary(Breakdown(rows))]

\* getReadingDNA(userId) up to its await
CallDNA ==
  /\ pc = "idle"
  /\ \E u \in ReqUsers : userId' = u
  /\ pc' = "getReadingDNA"
  /\ queries' = <<"getReadingDNA">>
  /\ UNCHANGED <<books, loans, limit, minScore, targetBooks, allUserBooks,
                 jac, peers, candidates, result, dna, error, dewey, category,
                 other>>

\* the query of getReadingDNA resolves
GetReadingDNAReturn ==
  /\ pc = "getReadingDNA"
  /\ \E rows \in BookCountOrders(DnaRows(userId)) :
       dna' = ReadingDNA(userId, rows)
  /\ pc' = "done"
  /\ UNCHANGED <<books, loans, userId, limit, minScore, targetBooks,
                 allUserBooks, jac, peers, candidates, result, queries,
                 error, dewey, category, other>>

\* Reading-history store: DnaBooks books, each with any of three category
\* codes (two of them in the same class); reader 1 holds up to MaxCopies loan
\* rows of each book, the other readers none
DnaCodes == <<<<"0", "0", "5", ".", "1">>, <<"0", "0", "5", ".", "7">>,
              <<"6", "5", "8", ".", "4">>>>
DnaBookSet == 1..DnaBooks

InitDNA ==
  /\ \E codes \in [DnaBookSet -> 1..Len(DnaCodes)] :
       books = [b \in DnaBookSet |-> [title |-> b, dewey |-> DnaCodes[codes[b]]]]
  /\ \E copies \in [DnaBookSet -> 0..MaxCopies] :
       loans = [u \in Users |-> [b \in DnaBookSet |->
                  IF u = 1 THEN copies[b] ELSE 0]]
  /\ Idle

NextDNA == CallDNA \/ GetReadingDNAReturn \/ QueryFail

SpecDNA == InitDNA /\ [][NextDNA]_vars

\* --------------------------------------------------- the service as a whole
\* both operations of the one DiscoveryService instance
NextService == Next \/ CallDNA \/ GetReadingDNAReturn

\* Service store: the books of the reading-history store with their own
\* titles and category codes repeating along the book ids; readers 1 and 2
\* have each read any set of them once, the other readers nothing
ServiceCatalog ==
  [b \in DnaBookSet |->
     [title |-> b, dewey |-> DnaCodes[(((b - 1) \div 2) % Len(DnaCodes)) + 1]]]

InitService ==
  /\ books = ServiceCatalog
  /\ \E r1 \in SUBSET DnaBookSet, r2 \in SUBSET DnaBookSet :
       loans = [u \in Users |-> [b \in DnaBookSet |->
                  IF (u = 1 /\ b \in r1) \/ (u = 2 /\ b \in r2) THEN 1 ELSE 0]]
  /\ Idle

SpecService == InitService /\ [][NextService]_vars

\* ------------------------------------------------------ concurrent requests
\* the locals of the request that is running
Frame ==
  [pc |-> pc, userId |-> userId, limit |-> limit, minScore |-> minScore,
   targetBooks |-> targetBooks, allUserBooks |-> allUserBooks,
   peers |-> peers, candidates |-> candidates, result |-> result,
   queries |-> queries, dna |-> dna, error |-> error]

\* The running request is suspended at its await (or has not started, or has
\* ended) and the event loop runs the other request of the same service
\* instance: every local of an async call lives in that call's own closure
\* (SwitchMut: the read-set is kept on the instance, one for both requests)
SwitchMut ==
  /\ other' = Frame
  /\ pc' = other.pc /\ userId' = other.userId /\ limit' = other.limit
  /\ minScore' = other.minScore
  /\ allUserBooks' = other.allUserBooks /\ peers' = other.peers
  /\ candidates' = other.candidates /\ result' = other.result
  /\ queries' = other.queries /\ dna' = other.dna /\ error' = other.error
  /\ UNCHANGED <<books, loans, jac, dewey, category, targetBooks>>
Switch ==
  /\ other' = Frame
  /\ pc' = other.pc /\ userId' = other.userId /\ limit' = other.limit
  /\ minScore' = other.minScore /\ targetBooks' = other.targetBooks
  /\ allUserBooks' = other.allUserBooks /\ peers' = other.peers
  /\ candidates' = other.candidates /\ result' = other.result
  /\ queries' = other.queries /\ dna' = other.dna /\ error' = other.error
  /\ UNCHANGED <<books, loans, jac, dewey, category>>

NextConc == NextService \/ Switch

SpecConc == InitService /\ [][NextConc]_vars

\* ------------------------------------------------------------ references
\* |A n B| / |A u B| written with the set operations themselves
RefJaccard(setA, setB) ==
  IF setA \cup setB = {} THEN Zero
  ELSE Frac(Cardinality(setA \cap setB), Cardinality(setA \cup setB))

RECURSIVE SumScores(_, _)
SumScores(ps, bookId) ==
  IF ps = <<>> THEN Zero
  ELSE FracAdd(IF bookId \in Head(ps).books THEN Head(ps).score ELSE Zero,
               SumScores(Tail(ps), bookId))

RECURSIVE Contributors(_, _)
Contributors(ps, bookId) ==
  IF ps = <<>> THEN <<>>
  ELSE (IF bookId \in Head(ps).books THEN <<Head(ps).peerId>> ELSE <<>>)
       \o Contributors(Tail(ps), bookId)

PeerIds(ps) == {ps[i].peerId : i \in 1..Len(ps)}

\* ----------------------------------------------------------------- claims

\* C1: _jaccard(A, B) is 0 when both sets are empty and otherwise exactly
\* |A n B| / (|A| + |B| - |A n B|), whichever set is the smaller; so it lies
\* in [0,1], is symmetric, is 1 on equal non-empty sets and 0 on disjoint ones.
C1_JaccardContract ==
  pc = "unit_jaccard" =>
    \A p \in DOMAIN jac :
      LET A == targetBooks
          B == allUserBooks[p]
          j == jac[p].ab
          inter == Cardinality(A \cap B)
      IN  /\ (A = {} /\ B = {}) => j = Zero
          /\ ~(A = {} /\ B = {}) =>
               j.n * (Cardinality(A) + Cardinality(B) - inter) = j.d * inter
          /\ j.d > 0 /\ 0 <= j.n /\ j.n <= j.d
          /\ jac[p].ba = j
          /\ (A = B /\ A # {}) => j = Frac(1, 1)
          /\ (A \cap B = {}) => j = Zero

C1_Witness ==
  /\ pc = "unit_jaccard"
  /\ \E p \in DOMAIN jac :
       /\ Cardinality(targetBooks) > Cardinality(allUserBooks[p])
       /\ jac[p].ab = Frac(1, 2)
  /\ \E q \in DOMAIN jac : allUserBooks[q] = targetBooks /\ jac[q].ab = Frac(1, 1)

C3_StrictlyDescending ==
  pc = "unit_scored" =>
    \A i \in 1..(Len(peers) - 1) : FracLT(peers[i + 1].score, peers[i].score)

\* C3 (amended): the list returned by _scorePeers is descending by score:
\* no entry's score is smaller than the score of a later entry.
C3_Descending ==
  pc = "unit_scored" =>
    \A i \in 1..(Len(peers) - 1) : FracLE(peers[i + 1].score, peers[i].score)

C3_Witness ==
  /\ pc = "unit_scored"
  /\ Len(peers) = 2
  /\ peers[1].peerId > peers[2].peerId
  /\ FracLT(peers[2].score, peers[1].score)

\* C4: _aggregateCandidates has as keys exactly the books of some given peer
\* that are not excluded; each weightedScore is the sum of the scores of the
\* peers holding the book and recommendedBy lists those peers in given order.
C4_AggregateExact ==
  pc = "unit_aggregated" =>
    /\ DOMAIN candidates =
         (UNION {peers[i].books : i \in 1..Len(peers)}) \ targetBooks
    /\ \A bookId \in DOMAIN candidates :
         /\ candidates[bookId].weightedScore = SumScores(peers, bookId)
         /\ candidates[bookId].recommendedBy = Contributors(peers, bookId)

C4_Witness ==
  /\ pc = "unit_aggregated"
  /\ Len(peers) = 2
  /\ \E bookId \in DOMAIN candidates :
       /\ Len(candidates[bookId].recommendedBy) = 2
       /\ candidates[bookId].weightedScore = Frac(3, 2)
  /\ \E x \in targetBooks : \E i \in 1..Len(peers) : x \in peers[i].books

\* ------------------------------------------- references for the requests
Last(q) == q[Len(q)]
PrimaryDone == pc = "done" /\ Len(queries) > 0 /\ Last(queries) = "enrichAndRank"
DeweyDone   == pc = "done" /\ Len(queries) > 0 /\ Last(queries) = "deweyFallback"
ColdDone    == pc = "done" /\ Len(queries) > 0 /\ Last(queries) = "coldStartFallback"

\* the read-set of a reader and a peer's score, read off the loans table
ReadSet(u) == {b \in DOMAIN books : loans[u][b] >= 1}
PeerScore(q) == RefJaccard(ReadSet(userId), ReadSet(q))
OtherReaders == {q \in (DOMAIN loans) \ {userId} : ReadSet(q) # {}}

RECURSIVE SumPeerScores(_)
SumPeerScores(ids) ==
  IF ids = <<>> THEN Zero
  ELSE FracAdd(PeerScore(Head(ids)), SumPeerScores(Tail(ids)))

\* |x - y| <= 1 / (2 * 10^FIXED_DIGITS) and x is a multiple of 10^-FIXED_DIGITS
IsRounded(x, y) ==
  LET scale == Pow10(FIXED_DIGITS)
      diff  == x.n * y.d - y.n * x.d
      abs   == IF diff < 0 THEN -diff ELSE diff
  IN  /\ scale % x.d = 0
      /\ 2 * scale * abs <= x.d * y.d

BookIds(res) == {res[i].book_id : i \in 1..Len(res)}
Distinct(res) == \A i, j \in 1..Len(res) : res[i].book_id = res[j].book_id => i = j

\* what C5 says of every entry but its score
C5_Entries ==
  \A i \in 1..Len(result) :
    LET e == result[i] IN
      /\ e.book_id \notin ReadSet(userId)
      /\ e.fallback = "none"
      /\ Len(e.recommended_by) >= 1
      /\ \A k \in 1..Len(e.recommended_by) :
           LET q == e.recommended_by[k] IN
             /\ q \in Users \ {userId}
             /\ FracLE(minScore, PeerScore(q))
             /\ e.book_id \in ReadSet(q)

\* the store of the example: A = {B1,B2,B3}, B = {B1,B2,B4}, C = {B5}
C5_ExampleStore(B, C) ==
  /\ B # C /\ B # userId /\ C # userId
  /\ ReadSet(userId) = {1, 2, 3} /\ ReadSet(B) = {1, 2, 4} /\ ReadSet(C) = {5}
  /\ OtherReaders = {B, C}
  /\ minScore = MIN_SIMILARITY

C5_Example ==
  \A B, C \in Users :
    (pc = "done" /\ C5_ExampleStore(B, C)) =>
      /\ Len(result) = 1
      /\ result[1].book_id = 4
      /\ result[1].match_score = Frac(1, 2)
      /\ result[1].recommended_by = <<B>>

\* C5 (as stated): on the primary path every returned book is unread by the
\* target, has no fallback tag, lists only qualifying peers who borrowed it,
\* and its score is the sum of those peers' scores; the A/B/C example yields
\* exactly B4 with score 0.5 and contributors [B].
C5_PrimaryExactSum ==
  PrimaryDone =>
    /\ C5_Entries
    /\ \A i \in 1..Len(result) :
         result[i].match_score = SumPeerScores(result[i].recommended_by)

\* C5 (amended): as stated, but the score of a returned book is the sum of
\* its contributors' scores rounded to four decimal places.
C5_PrimaryRoundedSum ==
  /\ PrimaryDone =>
       /\ C5_Entries
       /\ \A i \in 1..Len(result) :
            IsRounded(result[i].match_score,
                      SumPeerScores(result[i].recommended_by))
  /\ C5_Example

C5_Witness ==
  /\ PrimaryDone
  /\ \E i \in 1..Len(result) :
       /\ Len(result[i].recommended_by) = 2
       /\ result[i].match_score = Frac(6667, 10000)
  /\ \E b \in ReadSet(userId) : \E q \in OtherReaders : b \in ReadSet(q)

\* C6: when the target's read-set is empty the request returns the global
\* popularity fallback only: every entry is tagged 'cold_start_popularity'
\* with score 0 and no contributors, and the request never fetches the other
\* readers' sets, scores peers or aggregates candidates.
C6_ColdStart ==
  (pc \in {"coldStartFallback", "getAllUserBooks", "deweyFallback",
           "enrichAndRank", "done", "failed"}
   /\ Len(queries) >= 2 /\ ReadSet(userId) = {}) =>
    /\ queries = <<"getBorrowedBooks", "coldStartFallback">>
    /\ allUserBooks = NoMap /\ peers = <<>> /\ candidates = NoMap
    /\ pc = "done" =>
         /\ \A i \in 1..Len(result) :
              /\ result[i].fallback = "cold_start_popularity"
              /\ result[i].match_score = Zero
              /\ result[i].recommended_by = <<>>
              /\ BorrowCount(result[i].book_id) >= 1
         /\ Distinct(result)
         /\ Len(result) = Min(limit, Cardinality({b \in Books : BorrowCount(b) >= 1}))
         /\ \A i \in 1..Len(result) : \A b \in Books \ BookIds(result) :
              BorrowCount(b) <= BorrowCount(result[i].book_id)

C6_Witness ==
  /\ ColdDone
  /\ ReadSet(userId) = {}
  /\ Len(result) = 2
  /\ Cardinality(OtherReaders) = 2

NoPeerQualifies == \A q \in OtherReaders : ~FracLE(minScore, PeerScore(q))

C7_Tagged ==
  \A i \in 1..Len(result) :
    /\ result[i].fallback = "dewey_category_popularity"
    /\ result[i].match_score = Zero
    /\ result[i].recommended_by = <<>>

\* C7 (as stated): whenever the target has a non-empty read-set and no other
\* reader's score reaches minScore (also when no other reader has any loan),
\* the request invokes the category fallback and returns its tagged entries.
C7_AlwaysFallsBack ==
  (pc = "done" /\ ReadSet(userId) # {} /\ NoPeerQualifies) =>
    /\ Last(queries) = "deweyFallback"
    /\ C7_Tagged

\* C7 (amended): whenever the target has a non-empty read-set, at least one
\* other reader has a loan and no other reader's score reaches minScore, the
\* request invokes the category fallback and returns its entries, each tagged
\* 'dewey_category_popularity' with score 0 and no contributors; when no
\* other reader has any loan the request returns the empty list without
\* invoking the fallback.
C7_FallsBackWithPeers ==
  (pc = "done" /\ ReadSet(userId) # {} /\ NoPeerQualifies) =>
    IF OtherReaders # {}
      THEN /\ queries = <<"getBorrowedBooks", "getAllUserBooks", "deweyFallback">>
           /\ C7_Tagged
      ELSE /\ queries = <<"getBorrowedBooks", "getAllUserBooks">>
           /\ result = <<>>

C7_Witness ==
  /\ DeweyDone
  /\ Len(result) >= 1
  /\ \E q \in OtherReaders : PeerScore(q) # Zero

\* C8: every book returned by the category fallback has the category code of
\* some book in the target's read-set, is not in the read-set, has at least
\* one loan, and appears at most once.
C8_DeweyBooks ==
  DeweyDone =>
    /\ \A i \in 1..Len(result) :
         /\ \E b1 \in ReadSet(userId) :
              books[b1].dewey = result[i].dewey_decimal
         /\ result[i].dewey_decimal = books[result[i].book_id].dewey
         /\ result[i].book_id \notin ReadSet(userId)
         /\ BorrowCount(result[i].book_id) >= 1
    /\ Distinct(result)

C8_Witness ==
  /\ DeweyDone
  /\ Len(result) = 1
  /\ limit >= 2
  /\ Cardinality({b1 \in ReadSet(userId) :
                    books[b1].dewey = result[1].dewey_decimal}) >= 2
  /\ \E b \in Books \ ReadSet(userId) :
       BorrowCount(b) >= 1 /\ b \notin BookIds(result)

\* C9: the category fallback orders its results by each book's total borrow
\* count (its number of loan rows) descending and returns the top `limit` of
\* that order, also when several already-read books share a category code.
C9_OrderedByBorrowCount ==
  DeweyDone =>
    /\ \A i \in 1..(Len(result) - 1) :
         BorrowCount(result[i + 1].book_id) <= BorrowCount(result[i].book_id)
    /\ \A i \in 1..Len(result) :
         \A b \in {x \in Books \ ReadSet(userId) :
                     /\ BorrowCount(x) >= 1
                     /\ \E b1 \in ReadSet(userId) : books[b1].dewey = books[x].dewey} :
           b \notin BookIds(result) =>
             BorrowCount(b) <= BorrowCount(result[i].book_id)

LimitSupplied == limit \in {o[1] : o \in OptLimits \ {NoOpt}}

\* C11: the list returned by getRecommendations (primary or either fallback)
\* never has more than min(requested limit, MAX_RESULTS) entries, where the
\* requested limit is 5 when the caller supplies none.
C11_CappedAtMaxResults ==
  pc = "done" =>
    Len(result) <= Min(IF LimitSupplied THEN limit ELSE ROUTE_LIMIT, MAX_RESULTS)

\* C12: _deweyCategory maps each of the codes "005", "005.1" and "0051" to
\* "Technology & Computer Science", the code "999" to "History, Geography &
\* Biography" and the code "050" to "General & Computer Science".
C12_Examples ==
  pc = "unit_classified" =>
    /\ dewey \in {<<"0", "0", "5">>, <<"0", "0", "5", ".", "1">>,
                  <<"0", "0", "5", "1">>}
         => category = "Technology & Computer Science"
    /\ dewey = <<"9", "9", "9">> => category = "History, Geography & Biography"
    /\ dewey = <<"0", "5", "0">> => category = "General & Computer Science"

\* the reference classifier, on the number read from the code: the first
\* three digits of a non-negative integer part (the integer part itself below
\* 1000), the override labels by that number, the hundred-ranges by value
RECURSIVE RefFirstThree(_)
RefFirstThree(n) == IF n < 1000 THEN n ELSE RefFirstThree(n \div 10)

RefOverride ==
  (5 :> "Technology & Computer Science") @@ (153 :> "Cognitive Psychology") @@
  (155 :> "Developmental Psychology") @@
  (158 :> "Applied Psychology & Self-Help") @@
  (302 :> "Social Influences & Behaviour") @@ (332 :> "Finance & Economics") @@
  (658 :> "Business & Management") @@ (745 :> "Design & Decorative Arts") @@
  (909 :> "World History") @@ (921 :> "Biography & Memoir")

RefRanges ==
  <<"General & Computer Science", "Philosophy & Psychology",
    "Religion & Theology", "Social Sciences", "Language & Linguistics",
    "Pure Science", "Applied Science & Technology", "Arts & Recreation",
    "Literature", "History, Geography & Biography">>

RefCategory(code) ==
  LET num == ParseFloat(code)
      n   == IF num.neg /\ num.frac THEN -(num.int + 1)
             ELSE IF num.neg THEN -num.int ELSE num.int
  IN  IF num.nan THEN "History, Geography & Biography"
      ELSE IF n < 0 THEN RefRanges[1]
      ELSE IF RefFirstThree(n) \in DOMAIN RefOverride
        THEN RefOverride[RefFirstThree(n)]
      ELSE RefRanges[Min(n \div 100, 9) + 1]

NoRepeat(q) == \A i, j \in 1..Len(q) : q[i] = q[j] => i = j

\* C14: when a data-access call of getRecommendations or getReadingDNA fails,
\* the operation fails with that failure: it returns no list, no fallback
\* result and no breakdown, the failed call is the last one it issued and no
\* call is issued twice; an operation that completes, also with an empty
\* result, has not failed.
C14_FailurePropagates ==
  /\ NoRepeat(queries)
  /\ pc \in Awaiting => Len(queries) >= 1 /\ Last(queries) = pc
  /\ pc = "failed" <=> error # NoError
  /\ pc = "failed" =>
       /\ Last(queries) = error
       /\ result = <<>> /\ dna = NoDNA
  /\ pc = "done" =>
       /\ error = NoError
       /\ Last(queries) # "getBorrowedBooks"

C14_Witness ==
  /\ pc = "failed"
  /\ error = "deweyFallback"
  /\ queries = <<"getBorrowedBooks", "getAllUserBooks", "deweyFallback">>
  /\ Len(peers) = 0 /\ DOMAIN allUserBooks # {}

\* ---------------------------------------- references for getReadingDNA
DnaDone == pc = "done" /\ Len(queries) > 0 /\ Last(queries) = "getReadingDNA"

RECURSIVE SumCounts(_)
SumCounts(breakdown) ==
  IF breakdown = <<>> THEN 0
  ELSE Head(breakdown).count + SumCounts(Tail(breakdown))

\* C15: in the breakdown of getReadingDNA every category of the reader's
\* history appears exactly once: each raw category code of a borrowed book
\* has exactly one entry, no two entries carry the same category label, and
\* the counts of the entries sum to totalBooks.
C15_EachCategoryOnce ==
  DnaDone =>
    /\ \A b \in ReadSet(userId) :
         Cardinality({i \in 1..Len(dna.breakdown) :
                        dna.breakdown[i].dewey = books[b].dewey}) = 1
    /\ \A i, j \in 1..Len(dna.breakdown) :
         dna.breakdown[i].category = dna.breakdown[j].category => i = j
    /\ SumCounts(dna.breakdown) = dna.totalBooks

\* the number of hundredths a percentage text "d..d.dd%" stands for, -1 if
\* the text has another form
PctValue(p) ==
  LET int  == LeadingDigits(p)
      frac == SubSeq(p, Len(int) + 2, Len(p) - 1)
  IN  IF /\ Len(int) >= 1
         /\ Len(p) = Len(int) + PCT_DIGITS + 2
         /\ p[Len(int) + 1] = "."
         /\ p[Len(p)] = "%"
         /\ \A k \in 1..Len(frac) : IsDigit(frac[k])
        THEN DigitsValue(int) * Pow10(PCT_DIGITS) + DigitsValue(frac)
        ELSE -1

Abs(x) == IF x < 0 THEN -x ELSE x

RECURSIVE SumPct(_)
SumPct(breakdown) ==
  IF breakdown = <<>> THEN 0
  ELSE PctValue(Head(breakdown).percentage) + SumPct(Tail(breakdown))

\* the entries "{percentage} {category}" of the first k rows, ", " between
RECURSIVE RefSummary(_, _)
RefSummary(breakdown, k) ==
  IF k = 0 THEN <<>>
  ELSE RefSummary(breakdown, k - 1)
       \o (IF k = 1 THEN <<>> ELSE <<", ">>)
       \o breakdown[k].percentage \o <<" ">> \o <<breakdown[k].category>>

\* C16: for a reader with at least one loan each percentage of the breakdown
\* is count/totalBooks*100 rounded to two decimals followed by '%', the
\* percentages sum to 100.00 within rounding, the summary lists the entries
\* "{percentage} {category}" in descending-count order, and the counts
\* [3,2,2] give "42.86%", "28.57%", "28.57%".
C16_Percentages ==
  (DnaDone /\ ReadSet(userId) # {}) =>
    LET bd == dna.breakdown
        n  == Len(bd)
        full == 100 * Pow10(PCT_DIGITS)
    IN  /\ dna.totalBooks >= 1 /\ n >= 1
        /\ \A i \in 1..n :
             /\ PctValue(bd[i].percentage) >= 0
             /\ 2 * Abs(PctValue(bd[i].percentage) * dna.totalBooks
                          - full * bd[i].count) <= dna.totalBooks
        /\ 2 * Abs(SumPct(bd) - full) <= n
        /\ \A i \in 1..(n - 1) : bd[i + 1].count <= bd[i].count
        /\ dna.summary = RefSummary(bd, n)
        /\ [i \in 1..n |-> bd[i].count] = <<3, 2, 2>> =>
             [i \in 1..n |-> bd[i].percentage] =
               << <<"4", "2", ".", "8", "6", "%">>,
                  <<"2", "8", ".", "5", "7", "%">>,
                  <<"2", "8", ".", "5", "7", "%">> >>

C16_Witness ==
  /\ DnaDone
  /\ Len(dna.breakdown) = 3
  /\ dna.totalBooks = 7
  /\ dna.breakdown[1].percentage = <<"4", "2", ".", "8", "6", "%">>
  /\ dna.breakdown[2].category = dna.breakdown[3].category
  /\ Len(dna.summary) = 26

\* ------------------------------------------- references for the peer cap
SeqElems(q) == {q[i] : i \in 1..Len(q)}

\* the peers named in some contributor list of the aggregated candidates
AllContributors ==
  UNION {SeqElems(candidates[b].recommendedBy) : b \in DOMAIN candidates}

\* has the score to qualify and a book the target has not read
CouldContribute(q) ==
  /\ FracLE(minScore, PeerScore(q))
  /\ ReadSet(q) \ ReadSet(userId) # {}

\* qualifying peers that were left out of the aggregation
LeftOut == {q \in OtherReaders : CouldContribute(q) /\ q \notin AllContributors}

\* C17: at most MAX_PEERS peers contribute to the aggregation and they are
\* the head of the score-sorted list: every peer in a contributor list has a
\* score >= the score of every qualifying peer that was left out, no
\* contributor list is longer than MAX_PEERS, and the returned entries carry
\* those lists.
C17_TopPeersOnly ==
  (pc \in {"enrichAndRank", "done"} /\ DOMAIN candidates # {}) =>
    /\ Cardinality(AllContributors) <= MAX_PEERS
    /\ \A b \in DOMAIN candidates :
         Len(candidates[b].recommendedBy) <= MAX_PEERS
    /\ \A c \in AllContributors : \A q \in LeftOut :
         FracLE(PeerScore(q), PeerScore(c))
    /\ AllContributors \subseteq
         {peers[i].peerId : i \in 1..Min(MAX_PEERS, Len(peers))}
    /\ \A i \in 1..Min(MAX_PEERS, Len(peers)) :
         CouldContribute(peers[i].peerId) => peers[i].peerId \in AllContributors
    /\ pc = "done" =>
         \A i \in 1..Len(result) :
           result[i].recommended_by = candidates[result[i].book_id].recommendedBy

C17_Witness ==
  /\ PrimaryDone
  /\ Len(peers) = MAX_PEERS + 1
  /\ Cardinality(LeftOut) = 1
  /\ \E i \in 1..Len(result) : Len(result[i].recommended_by) = MAX_PEERS
  /\ \E c \in AllContributors : \E q \in LeftOut :
       FracLT(PeerScore(q), PeerScore(c))
  /\ \E c \in AllContributors : \E q \in LeftOut : q < c

\* --------------------------------------- references for concurrent requests
\* the lists getRecommendations(u, {limit, minScore}) can return when it is
\* the only request: the composition of its steps over the store
AloneResults(u, lim, ms) ==
  LET target == GetBorrowedBooks(u)
      all    == GetAllUserBooks(u)
      ps     == ScorePeers(target, all, ms)
      cands  == AggregateCandidates(TopPeers(ps), target)
  IN  IF target = {}
        THEN {[i \in 1..Min(lim, Len(rows)) |-> ColdStartEntry(rows[i])] :
                rows \in CountOrders(ColdStartRows)}
      ELSE IF DOMAIN all = {} THEN {<<>>}
      ELSE IF Len(ps) = 0
        THEN {[i \in 1..Min(lim, Len(rows)) |-> DeweyEntry(rows[i])] :
                rows \in CountOrders(DeweyRows(target))}
      ELSE IF DOMAIN cands = {} THEN {<<>>}
      ELSE {Slice(sorted, lim) : sorted \in RankOrders(Enriched(cands))}

\* the objects getReadingDNA(u) can return when it is the only request
AloneDNA(u) == {ReadingDNA(u, rows) : rows \in BookCountOrders(DnaRows(u))}

\* a request that has returned holds a result of its operation run alone
ReturnsAsAlone(f) ==
  f.pc = "done" =>
    IF f.queries[1] = "getReadingDNA"
      THEN f.dna \in AloneDNA(f.userId) /\ f.result = <<>>
      ELSE f.result \in AloneResults(f.userId, f.limit, f.minScore)
           /\ f.dna = NoDNA

\* a step either hands over between the two requests or leaves the locals
\* of the suspended request, and the store, as they are
KeepsOther ==
  /\ books' = books /\ loans' = loans
  /\ \/ other' = other
     \/ other' = Frame /\ Frame' = other

\* C18: two requests on one DiscoveryService instance do not interfere: over
\* an unchanged store and under any interleaving of their data-access steps
\* each request returns a result it returns when run alone, and no step of
\* one request changes anything the other request holds.
C18_NoInterference ==
  /\ [](ReturnsAsAlone(Frame) /\ ReturnsAsAlone(other))
  /\ [][KeepsOther]_vars

C18_Witness ==
  /\ PrimaryDone
  /\ Len(result) >= 1
  /\ other.pc = "deweyFallback"
  /\ other.userId # userId
  /\ other.targetBooks # targetBooks
  /\ other.minScore # minScore

====
